---- MODULE Spec2Model ----
(***************************************************************************)
(* Model of the pid_example crate: the monolithic PidController of         *)
(* src/lib.rs and the layered PidController of src/outer_pid.rs (a clock   *)
(* tracker wrapped around crate::pid::Pid).                                *)
(*                                                                         *)
(* f32 values are modelled as exact rationals <<n, d>> in lowest terms     *)
(* with d > 0; SystemTime and Duration are counted in clock ticks, with    *)
(* TicksPerSec ticks to the second.                                        *)
(***************************************************************************)
EXTENDS Integers, Sequences, FiniteSets, TLC

\* ---------------------------------------------------------------- bounds
MaxClock == 3
MaxCalls == 2
MaxTermCalls == 3
TicksPerSec == 2

\* the values the caller passes
PGains == {0, 1}
IGains == {0, 1, 2}
DGains == {0, 1}
Setpoints == {0, 2}
Measurements == {0, 1}
Errors == {0 - 1, 0, 2}
Deltas == {0, 1, 2}
\* ticks the clock advances between the two readings of one call
Advances == {0, 1}

\* ------------------------------------------------------- f32 arithmetic
Abs(n) == IF n < 0 THEN 0 - n ELSE n

RECURSIVE GCD(_, _)
GCD(a, b) == IF b = 0 THEN a ELSE GCD(b, a % b)

Norm(q) ==
    LET g == GCD(Abs(q[1]), Abs(q[2]))
        s == IF q[2] < 0 THEN 0 - 1 ELSE 1
    IN  <<(s * q[1]) \div g, (s * q[2]) \div g>>

F32(n) == <<n, 1>>
Zero == F32(0)
FAdd(a, b) == Norm(<<a[1] * b[2] + b[1] * a[2], a[2] * b[2]>>)
FSub(a, b) == Norm(<<a[1] * b[2] - b[1] * a[2], a[2] * b[2]>>)
FMul(a, b) == Norm(<<a[1] * b[1], a[2] * b[2]>>)
FDiv(a, b) == Norm(<<a[1] * b[2], a[2] * b[1]>>)

\* Duration::as_secs: whole seconds only
as_secs(t) == F32(t \div TicksPerSec)

\* Duration::as_secs_f32: a duration of t ticks, in seconds
as_secs_f32(t) == Norm(<<t, TicksPerSec>>)

\* Option<SystemTime>
None == <<>>
Some(t) == <<t>>

\* ---------------------------------------------------------------- state
VARIABLES
    variant,            \* which PidController the caller built: "lib" or "outer"
    clock,              \* SystemTime::now()
    p_coefficient, i_coefficient, d_coefficient,
    last_runtime,       \* lib.rs PidController
    last_iterm,
    last_error,
    pid,                \* outer_pid.rs PidController.pid
    outer_last_runtime, \* outer_pid.rs PidController.last_runtime
    panicked,           \* an unwrap() of Err aborted the caller
    calls,              \* log of the update calls that returned
    terms               \* log of the direct i_term / d_term calls

vars == <<variant, clock, p_coefficient, i_coefficient, d_coefficient,
          last_runtime, last_iterm, last_error, pid, outer_last_runtime,
          panicked, calls, terms>>

libVars == <<p_coefficient, i_coefficient, d_coefficient,
             last_runtime, last_iterm, last_error>>
outerVars == <<pid, outer_last_runtime>>

\* ---------------------------------------------- lib.rs: term functions
error(setpoint, measurement) == FSub(setpoint, measurement)

p_term(err) == err

\* the value returned and the field written
i_term(iterm, i_coef, err, delta_time) ==
    LET i == FAdd(iterm, FMul(err, delta_time))
    IN  [ret |-> FMul(i_coef, i), last_iterm |-> i]

\* d_term storing the error before the zero-delta guard
d_term_store_on_zero(lerr, err, delta_time) ==
    IF delta_time = Zero
    THEN [ret |-> Zero, last_error |-> err]
    ELSE [ret |-> FDiv(FSub(err, lerr), delta_time), last_error |-> err]

\* d_term without the assignment to last_error
d_term_keep(lerr, err, delta_time) ==
    IF delta_time = Zero
    THEN [ret |-> Zero, last_error |-> lerr]
    ELSE [ret |-> FDiv(FSub(err, lerr), delta_time), last_error |-> lerr]

d_term(lerr, err, delta_time) ==
    IF delta_time = Zero
    THEN [ret |-> Zero, last_error |-> lerr]
    ELSE [ret |-> FDiv(FSub(err, lerr), delta_time), last_error |-> err]

\* the second clock reading, adv ticks after the first
set_last_runtime(now, adv) == Some(now + adv)

\* get_time_difference measuring the first call from the epoch
get_time_difference_since_epoch(last, now, adv) ==
    IF last # None /\ now < last[1]
    THEN [panic |-> TRUE, dt |-> 0, last_runtime |-> last]
    ELSE [panic |-> FALSE,
          dt |-> IF last # None THEN now - last[1] ELSE now,
          last_runtime |-> set_last_runtime(now, adv)]

\* get_time_difference storing the time only when one is already stored
get_time_difference_no_first_store(last, now, adv) ==
    IF last # None /\ now < last[1]
    THEN [panic |-> TRUE, dt |-> 0, last_runtime |-> last]
    ELSE [panic |-> FALSE,
          dt |-> IF last # None THEN now - last[1] ELSE 0,
          last_runtime |-> IF last # None THEN set_last_runtime(now, adv)
                           ELSE None]

\* get_time_difference with unwrap_or_default() in place of unwrap()
get_time_difference_clamped(last, now, adv) ==
    [panic |-> FALSE,
     dt |-> IF last # None /\ now >= last[1] THEN now - last[1] ELSE 0,
     last_runtime |-> set_last_runtime(now, adv)]

\* unwrap() of now.duration_since(last): Err when now is earlier than last
get_time_difference(last, now, adv) ==
    IF last # None /\ now < last[1]
    THEN [panic |-> TRUE, dt |-> 0, last_runtime |-> last]
    ELSE [panic |-> FALSE,
          dt |-> IF last # None THEN now - last[1] ELSE 0,
          last_runtime |-> set_last_runtime(now, adv)]

\* ------------------------------------ crate::pid::Pid (behind outer_pid)
Pid_new(p, i, d) ==
    [p_coefficient |-> p, i_coefficient |-> i, d_coefficient |-> d,
     last_integral |-> Zero, last_error |-> Zero]

integral_term(integral, err, delta_time) ==
    LET i == FAdd(integral, FMul(err, delta_time))
    IN  [ret |-> i, last_integral |-> i]

derivative_term(lerr, err, delta_time) ==
    IF delta_time = Zero
    THEN [ret |-> Zero, last_error |-> lerr]
    ELSE [ret |-> FDiv(FSub(err, lerr), delta_time), last_error |-> err]

Pid_update(self, setpoint, measurement, dt) ==
    LET e == FSub(setpoint, measurement)
        t == as_secs_f32(dt)
        it == integral_term(self.last_integral, e, t)
        dv == derivative_term(self.last_error, e, t)
    IN  [ret |-> FAdd(FAdd(FMul(self.p_coefficient, e),
                           FMul(self.i_coefficient, it.ret)),
                      FMul(self.d_coefficient, dv.ret)),
         pid |-> [self EXCEPT !.last_integral = it.last_integral,
                              !.last_error = dv.last_error]]

\* ---------------------------------------- outer_pid.rs: clock tracking
outer_get_time_difference(last, now) ==
    IF last # None /\ now < last[1]
    THEN [panic |-> TRUE, dt |-> 0, last_runtime |-> last]
    ELSE [panic |-> FALSE,
          dt |-> IF last # None THEN now - last[1] ELSE 0,
          last_runtime |-> Some(now)]

\* ----------------------------------------------------------------- Init
Init ==
    /\ variant \in {"lib", "outer"}
    /\ clock = 0
    /\ p_coefficient \in {F32(g) : g \in PGains}
    /\ i_coefficient \in {F32(g) : g \in IGains}
    /\ d_coefficient \in {F32(g) : g \in DGains}
    /\ last_runtime = None
    /\ last_iterm = Zero
    /\ last_error = Zero
    /\ pid = Pid_new(p_coefficient, i_coefficient, d_coefficient)
    /\ outer_last_runtime = None
    /\ panicked = FALSE
    /\ calls = <<>>
    /\ terms = <<>>

\* ------------------------------------------------------------ the clock
Tick ==
    /\ ~panicked
    /\ clock < MaxClock
    /\ clock' = clock + 1
    /\ UNCHANGED <<variant, libVars, outerVars, panicked, calls, terms>>

\* SystemTime is not monotonic: the wall clock can be set back
ClockBack ==
    /\ ~panicked
    /\ clock > 0
    /\ clock' = clock - 1
    /\ UNCHANGED <<variant, libVars, outerVars, panicked, calls, terms>>

\* ------------------------------------------------- lib.rs: update
CallRecord(sp, m, now, g, out, post_iterm, post_error) ==
    [setpoint |-> sp, measurement |-> m, now |-> now, dt |-> g.dt,
     out |-> out, stored |-> g.last_runtime,
     post_iterm |-> post_iterm, post_error |-> post_error,
     pre_runtime |-> IF variant = "lib" THEN last_runtime
                     ELSE outer_last_runtime,
     pre_iterm |-> IF variant = "lib" THEN last_iterm
                   ELSE pid.last_integral,
     pre_error |-> IF variant = "lib" THEN last_error ELSE pid.last_error]

update(sp, m, adv) ==
    /\ variant = "lib"
    /\ ~panicked
    /\ Len(calls) < MaxCalls
    /\ clock + adv <= MaxClock
    /\ LET g == get_time_difference(last_runtime, clock, adv)
           dt == as_secs_f32(g.dt)
           e == error(F32(sp), F32(m))
           it == i_term(last_iterm, i_coefficient, e, dt)
           dv == d_term(last_error, e, dt)
           out == FAdd(FAdd(FMul(p_term(e), p_coefficient),
                            FMul(it.ret, i_coefficient)),
                       FMul(dv.ret, d_coefficient))
       IN  IF g.panic
           THEN /\ panicked' = TRUE
                /\ UNCHANGED <<clock, last_runtime, last_iterm, last_error,
                               calls>>
           ELSE /\ last_runtime' = g.last_runtime
                /\ last_iterm' = it.last_iterm
                /\ last_error' = dv.last_error
                /\ clock' = clock + adv
                /\ calls' = Append(calls,
                       CallRecord(sp, m, clock, g, out, it.last_iterm,
                                  dv.last_error))
                /\ UNCHANGED panicked
    /\ UNCHANGED <<variant, p_coefficient, i_coefficient, d_coefficient,
                   outerVars, terms>>

\* ------------------------------------------------- outer_pid.rs: update
outer_update(sp, m, adv) ==
    /\ variant = "outer"
    /\ ~panicked
    /\ Len(calls) < MaxCalls
    /\ clock + adv <= MaxClock
    /\ LET g == outer_get_time_difference(outer_last_runtime, clock)
           r == Pid_update(pid, F32(sp), F32(m), g.dt)
       IN  IF g.panic
           THEN /\ panicked' = TRUE
                /\ UNCHANGED <<clock, pid, outer_last_runtime, calls>>
           ELSE /\ outer_last_runtime' = g.last_runtime
                /\ pid' = r.pid
                /\ clock' = clock + adv
                /\ calls' = Append(calls,
                       CallRecord(sp, m, clock, g, r.ret,
                                  r.pid.last_integral, r.pid.last_error))
                /\ UNCHANGED panicked
    /\ UNCHANGED <<variant, libVars, terms>>

Next ==
    \/ Tick
    \/ ClockBack
    \/ \E sp \in Setpoints, m \in Measurements, adv \in Advances :
           update(sp, m, adv)
    \/ \E sp \in Setpoints, m \in Measurements, adv \in Advances :
           outer_update(sp, m, adv)

Spec == Init /\ [][Next]_vars

\* ------------------------- direct calls of the term methods (unit tests)
TermRecord(op, e, t, ret, post_iterm, post_error) ==
    [op |-> op, error |-> e, delta_time |-> t, ret |-> ret,
     pre_iterm |-> last_iterm, pre_error |-> last_error,
     post_iterm |-> post_iterm, post_error |-> post_error]

call_i_term(e, t) ==
    /\ variant = "lib"
    /\ Len(terms) < MaxTermCalls
    /\ LET r == i_term(last_iterm, i_coefficient, F32(e), as_secs_f32(t))
       IN  /\ last_iterm' = r.last_iterm
           /\ terms' = Append(terms,
                  TermRecord("i_term", F32(e), as_secs_f32(t), r.ret,
                             r.last_iterm, last_error))
    /\ UNCHANGED <<variant, clock, p_coefficient, i_coefficient,
                   d_coefficient, last_runtime, last_error, outerVars,
                   panicked, calls>>

call_d_term(e, t) ==
    /\ variant = "lib"
    /\ Len(terms) < MaxTermCalls
    /\ LET r == d_term(last_error, F32(e), as_secs_f32(t))
       IN  /\ last_error' = r.last_error
           /\ terms' = Append(terms,
                  TermRecord("d_term", F32(e), as_secs_f32(t), r.ret,
                             last_iterm, r.last_error))
    /\ UNCHANGED <<variant, clock, p_coefficient, i_coefficient,
                   d_coefficient, last_runtime, last_iterm, outerVars,
                   panicked, calls>>

\* PidController::new(ZERO, i, ZERO), as the unit tests of the terms build it
InitTerms ==
    /\ Init
    /\ variant = "lib"
    /\ p_coefficient = Zero
    /\ d_coefficient = Zero

NextTerms ==
    \/ \E e \in Errors, t \in Deltas : call_i_term(e, t)
    \/ \E e \in Errors, t \in Deltas : call_d_term(e, t)

SpecTerms == InitTerms /\ [][NextTerms]_vars

\* ---------------------------------------------------- the update claims
\* The claims on the values update returns are stated of the lib.rs
\* controller; the claims on the clock are stated of both controllers.
LastRuntime == IF variant = "lib" THEN last_runtime ELSE outer_last_runtime
LastIntegral == IF variant = "lib" THEN last_iterm ELSE pid.last_integral
LastError == IF variant = "lib" THEN last_error ELSE pid.last_error
CallError(c) == FSub(F32(c.setpoint), F32(c.measurement))
CallDelta(c) == Norm(<<c.dt, TicksPerSec>>)
SameInputs(c, b) ==
    c.setpoint = b.setpoint /\ c.measurement = b.measurement

\* C1: update returns p*P + i*I + d*D with P = setpoint - measurement,
\* I = old last_integral + P*dt (the new stored integral) and D the
\* derivative term, the gain i applied once.
C1_GainsAppliedOnce ==
    \A k \in 1..Len(calls) :
        variant = "lib" =>
        LET c == calls[k]
            P == CallError(c)
            I == FAdd(c.pre_iterm, FMul(P, CallDelta(c)))
            D == IF c.dt = 0 THEN Zero
                 ELSE FDiv(FSub(P, c.pre_error), CallDelta(c))
        IN  /\ c.post_iterm = I
            /\ c.out = FAdd(FAdd(FMul(p_coefficient, P),
                                 FMul(i_coefficient, I)),
                            FMul(d_coefficient, D))

\* C2: the first update of a fresh controller has elapsed delta 0 and
\* returns p_coefficient * (setpoint - measurement); last_integral and
\* last_error are still 0 after it.
C2_FirstUpdate ==
    (variant = "lib" /\ Len(calls) >= 1) =>
        /\ calls[1].dt = 0
        /\ calls[1].out = FMul(p_coefficient, CallError(calls[1]))
        /\ calls[1].post_iterm = Zero
        /\ calls[1].post_error = Zero

\* a first update made at a nonzero clock reading with a nonzero error and
\* all three gains nonzero
C2_Witness ==
    /\ variant = "lib"
    /\ Len(calls) = 1
    /\ calls[1].now > 0
    /\ CallError(calls[1]) # Zero
    /\ p_coefficient # Zero /\ i_coefficient # Zero /\ d_coefficient # Zero
    /\ LastIntegral = Zero /\ LastError = Zero

DOnly ==
    variant = "lib" /\ p_coefficient = Zero /\ i_coefficient = Zero /\ d_coefficient = F32(1)

\* C3 as stated: with gains (0, 0, 1) the first update returns 0 and a
\* second update after a nonzero elapsed time with the same setpoint and
\* measurement returns 0 too.
C3_ConstantErrorZeroDerivative ==
    DOnly =>
        /\ Len(calls) >= 1 => calls[1].out = Zero
        /\ ( /\ Len(calls) >= 2
             /\ calls[2].dt # 0
             /\ SameInputs(calls[2], calls[1]) )
           => calls[2].out = Zero

\* C3 amended: with gains (0, 0, 1) the first update returns 0 and leaves
\* last_error at 0, so a second update after a nonzero elapsed time dt with
\* the same setpoint and measurement returns (setpoint - measurement) / dt,
\* which is 0 only when setpoint = measurement.
C3_SecondUpdateErrorOverDt ==
    DOnly =>
        /\ Len(calls) >= 1 => calls[1].out = Zero
        /\ ( /\ Len(calls) >= 2
             /\ calls[2].dt # 0
             /\ SameInputs(calls[2], calls[1]) )
           => /\ calls[2].out = FDiv(CallError(calls[2]),
                                     CallDelta(calls[2]))
              /\ (calls[2].out = Zero <=> CallError(calls[2]) = Zero)

C3_Witness ==
    /\ DOnly
    /\ Len(calls) = 2
    /\ calls[2].dt # 0
    /\ SameInputs(calls[2], calls[1])
    /\ CallError(calls[2]) # Zero
    /\ calls[2].out # Zero

C8_UninitializedThenRunning ==
    /\ [](LastRuntime = None <=> (Len(calls) = 0))
    /\ [](LastRuntime # None =>
              (Len(LastRuntime) = 1 /\ LastRuntime[1] \in 0..MaxClock))
    /\ [][LastRuntime # None => LastRuntime' # None]_vars

C8_Witness ==
    /\ Len(calls) = 2
    /\ LastRuntime # None
    /\ calls[1].pre_runtime = None
    /\ calls[2].pre_runtime # None

\* C9: an update that reads a clock value earlier than the stored
\* last_runtime aborts and returns nothing; every elapsed delta fed to the
\* terms is >= 0.
C9_BackwardClockAborts ==
    /\ [](\A k \in 1..Len(calls) : calls[k].dt >= 0)
    /\ [](panicked => (LastRuntime # None /\ clock < LastRuntime[1]))
    /\ [][(LastRuntime # None /\ clock < LastRuntime[1])
              => calls' = calls]_vars

C9_Witness ==
    /\ panicked
    /\ Len(calls) >= 1
    /\ clock < LastRuntime[1]

RECURSIVE SumDt(_)
SumDt(k) == IF k = 0 THEN 0 ELSE calls[k].dt + SumDt(k - 1)

\* C10: each elapsed-time query stores the clock reading it computed the
\* duration from, so the returned deltas sum to the time between the first
\* and the last call's reading.
C10_StoresTheReadingUsed ==
    /\ \A k \in 1..Len(calls) : calls[k].stored = Some(calls[k].now)
    /\ Len(calls) >= 1 =>
           SumDt(Len(calls)) = calls[Len(calls)].now - calls[1].now

\* ------------------------------------------------ the term-call claims
IsD(k) == terms[k].op = "d_term"
IsI(k) == terms[k].op = "i_term"
Last(S) == CHOOSE x \in S : \A y \in S : y <= x

\* the d_term calls before call k that had a nonzero delta_time
TimedD(k) == {j \in 1..(k - 1) : IsD(j) /\ terms[j].delta_time # Zero}
PriorError(k) ==
    IF TimedD(k) = {} THEN Zero ELSE terms[Last(TimedD(k))].error

\* C4: a d_term call with delta_time = 0 returns 0 and leaves last_error as
\* it was, so the next d_term call with a nonzero delta_time differences
\* against the error stored before the zero-delta calls.
C4_ZeroDeltaKeepsLastError ==
    /\ \A k \in 1..Len(terms) :
           (IsD(k) /\ terms[k].delta_time = Zero) =>
               /\ terms[k].ret = Zero
               /\ terms[k].post_error = terms[k].pre_error
    /\ \A j \in 1..Len(terms) : \A k \in (j + 1)..Len(terms) :
           ( /\ IsD(k) /\ terms[k].delta_time # Zero
             /\ \A n \in j..(k - 1) : IsD(n) => terms[n].delta_time = Zero )
           => terms[k].ret = FDiv(FSub(terms[k].error, terms[j].pre_error),
                                  terms[k].delta_time)

\* a zero-delta d_term call whose error differs from the stored one, then a
\* timed d_term call
C4_Witness ==
    \E j \in 1..Len(terms) : \E k \in (j + 1)..Len(terms) :
        /\ IsD(j) /\ terms[j].delta_time = Zero
        /\ terms[j].pre_error # Zero
        /\ terms[j].error # terms[j].pre_error
        /\ IsD(k) /\ terms[k].delta_time # Zero
        /\ terms[k].ret # Zero

\* C5: i_term stores last_iterm + error * delta_time and returns that raw
\* sum, no gain applied; n calls with fixed e and t from a fresh controller
\* return and store e * t * n.
C5_IntegralTermRaw ==
    /\ \A k \in 1..Len(terms) :
           IsI(k) =>
               LET sum == FAdd(terms[k].pre_iterm,
                               FMul(terms[k].error, terms[k].delta_time))
               IN  /\ terms[k].post_iterm = sum
                   /\ terms[k].ret = sum
    /\ \A n \in 1..Len(terms) :
           (\A k \in 1..n : /\ IsI(k)
                             /\ terms[k].error = terms[1].error
                             /\ terms[k].delta_time = terms[1].delta_time)
           => LET etn == FMul(FMul(terms[1].error, terms[1].delta_time),
                              F32(n))
              IN  terms[n].ret = etn /\ terms[n].post_iterm = etn

\* C6: a d_term call with delta_time # 0 returns
\* (error - last_error) / delta_time, last_error being the error of the
\* latest earlier d_term call with a nonzero delta_time (0 if none), and
\* stores the current error in last_error.
C6_TimedDerivative ==
    /\ \A k \in 1..Len(terms) :
           (IsD(k) /\ terms[k].delta_time # Zero) =>
               /\ terms[k].ret = FDiv(FSub(terms[k].error, PriorError(k)),
                                      terms[k].delta_time)
               /\ terms[k].post_error = terms[k].error
    /\ last_error = PriorError(Len(terms) + 1)

\* errors e1 then e2, both with nonzero deltas, e1 # e2 and e1 # 0, with a
\* zero-delta call of a third error in between
C6_Witness ==
    \E j \in 1..Len(terms) : \E k \in (j + 2)..Len(terms) :
        /\ IsD(j) /\ terms[j].delta_time # Zero /\ terms[j].error # Zero
        /\ IsD(j + 1) /\ terms[j + 1].delta_time = Zero
        /\ terms[j + 1].error # terms[j].error
        /\ IsD(k) /\ terms[k].delta_time # Zero
        /\ terms[k].error # terms[j].error
        /\ terms[k].ret = FDiv(FSub(terms[k].error, terms[j].error),
                               terms[k].delta_time)

TypeOK ==
    /\ variant \in {"lib", "outer"}
    /\ clock \in 0..MaxClock
    /\ panicked \in BOOLEAN
    /\ Len(calls) <= MaxCalls
====
